---- MODULE Spec2Model ----
(***************************************************************************)
(* Model of xweb's router and action dispatcher (route.go).                *)
(*                                                                         *)
(* Strings are sequences of one-character strings, so that len(), the      *)
(* regexp engine and path.Join act on them character by character.         *)
(***************************************************************************)
EXTENDS Integers, Sequences, FiniteSets, TLC

(***************************************************************************)
(* Strings                                                                 *)
(***************************************************************************)
EmptyStr == << >>

\* strings.ContainsAny(s, chars)
ContainsAny(s, chars) == \E i \in 1..Len(s) : s[i] \in chars

\* strings.HasSuffix(s, suffix)
HasSuffix(s, suffix) ==
    /\ Len(suffix) <= Len(s)
    /\ SubSeq(s, Len(s) - Len(suffix) + 1, Len(s)) = suffix

\* strconv.Itoa for n >= 0: the decimal digits of n, most significant first
Digit(d) == CASE d = 0 -> "0" [] d = 1 -> "1" [] d = 2 -> "2" [] d = 3 -> "3"
              [] d = 4 -> "4" [] d = 5 -> "5" [] d = 6 -> "6" [] d = 7 -> "7"
              [] d = 8 -> "8" [] d = 9 -> "9"

RECURSIVE Itoa(_)
Itoa(n) == IF n < 10 THEN << Digit(n) >>
           ELSE Append(Itoa(n \div 10), Digit(n % 10))

(***************************************************************************)
(* path.Join / path.Clean of the Go standard library, as handle uses it    *)
(***************************************************************************)
\* the elements of s between slashes, acc being the element being read
RECURSIVE SplitSlash(_, _, _)
SplitSlash(s, i, acc) ==
    IF i > Len(s) THEN << acc >>
    ELSE IF s[i] = "/" THEN << acc >> \o SplitSlash(s, i + 1, EmptyStr)
    ELSE SplitSlash(s, i + 1, Append(acc, s[i]))

DotDot == << ".", "." >>

\* Clean's element pass: drop "" and ".", let ".." remove the element before
\* it, drop a ".." that would climb above the root, keep it in a relative path
RECURSIVE CleanElems(_, _, _, _)
CleanElems(elems, i, rooted, out) ==
    IF i > Len(elems) THEN out
    ELSE LET e == elems[i] IN
         IF e = EmptyStr \/ e = << "." >>
         THEN CleanElems(elems, i + 1, rooted, out)
         ELSE IF e = DotDot
         THEN IF Len(out) > 0 /\ out[Len(out)] # DotDot
              THEN CleanElems(elems, i + 1, rooted, SubSeq(out, 1, Len(out) - 1))
              ELSE IF rooted
              THEN CleanElems(elems, i + 1, rooted, out)
              ELSE CleanElems(elems, i + 1, rooted, Append(out, e))
         ELSE CleanElems(elems, i + 1, rooted, Append(out, e))

RECURSIVE JoinSlash(_, _)
JoinSlash(elems, i) ==
    IF i > Len(elems) THEN EmptyStr
    ELSE IF i = Len(elems) THEN elems[i]
    ELSE elems[i] \o << "/" >> \o JoinSlash(elems, i + 1)

\* path.Clean
Clean(p) ==
    IF p = EmptyStr THEN << "." >>
    ELSE LET rooted == p[1] = "/"
             body   == JoinSlash(CleanElems(SplitSlash(p, 1, EmptyStr), 1, rooted, << >>), 1)
         IN  IF rooted THEN << "/" >> \o body
             ELSE IF body = EmptyStr THEN << "." >> ELSE body

\* path.Join(a, b)
PathJoin(a, b) ==
    IF a = EmptyStr /\ b = EmptyStr THEN EmptyStr
    ELSE IF a = EmptyStr THEN Clean(b)
    ELSE Clean(a \o << "/" >> \o b)

(***************************************************************************)
(* regexp.Compile (Perl syntax) restricted to the operators that route     *)
(* sources of this model use: literals, ".", "|", "*", "?", lazy "*?" and  *)
(* "??", and capturing groups.  A syntax tree node is a record             *)
(* [op, ch, greedy, n, kids]; n is a capture index (or a position in the   *)
(* matcher's markers).                                                     *)
(***************************************************************************)
RepeatOps == { "*", "?" }

Node(op, ch, greedy, n, kids) ==
    [op |-> op, ch |-> ch, greedy |-> greedy, n |-> n, kids |-> kids]

Lit(c)          == Node("lit", c, TRUE, 0, << >>)
AnyChar         == Node("any", "", TRUE, 0, << >>)
Cat(kids)       == Node("cat", "", TRUE, 0, kids)
Alt(a, b)       == Node("alt", "", TRUE, 0, << a, b >>)
Star(a, greedy) == Node("star", "", greedy, 0, << a >>)
Quest(a, greedy) == Node("quest", "", greedy, 0, << a >>)
Cap(idx, a)     == Node("cap", "", TRUE, idx, << a >>)

ParseErr(i)           == [ok |-> FALSE, node |-> Cat(<< >>), pos |-> i, ng |-> 0]
ParseOk(node, i, ng)  == [ok |-> TRUE, node |-> node, pos |-> i, ng |-> ng]

RECURSIVE ParseAlt(_, _, _, _)
RECURSIVE ParseConcat(_, _, _, _, _)

\* c | r
AltJoin(c, r) ==
    IF ~r.ok THEN r ELSE ParseOk(Alt(c.node, r.node), r.pos, r.ng)

\* after the concatenation c: the alternatives that follow a "|"
AltRest(s, depth, c) ==
    IF ~c.ok THEN c
    ELSE IF c.pos <= Len(s) /\ s[c.pos] = "|"
    THEN AltJoin(c, ParseAlt(s, c.pos + 1, c.ng, depth))
    ELSE c

\* alternation: concat ( "|" concat )*
ParseAlt(s, i, ng, depth) == AltRest(s, depth, ParseConcat(s, i, ng, depth, << >>))

\* after the group opened with capture index idx, whose content r was read
GroupClose(s, idx, r) ==
    IF ~r.ok THEN r
    ELSE IF r.pos <= Len(s) /\ s[r.pos] = ")"
    THEN ParseOk(Cap(idx, r.node), r.pos + 1, r.ng)
    ELSE ParseErr(r.pos)                     \* missing closing )

\* one atom: a capturing group, "." or a literal character
ParseAtom(s, i, ng, depth) ==
    IF s[i] = "("
    THEN IF i + 1 <= Len(s) /\ s[i + 1] = "?"
         THEN ParseErr(i)                    \* invalid or unsupported Perl syntax
         ELSE GroupClose(s, ng + 1, ParseAlt(s, i + 1, ng + 1, depth + 1))
    ELSE IF s[i] = "." THEN ParseOk(AnyChar, i + 1, ng)
    ELSE ParseOk(Lit(s[i]), i + 1, ng)

\* the atom a followed by the repetition operator at a.pos, lazy when a "?"
\* follows the operator; nxt is the position after them
Repeated(s, depth, acc, a, lazy, nxt) ==
    IF nxt <= Len(s) /\ s[nxt] \in RepeatOps
    THEN ParseErr(nxt)                       \* invalid nested repetition operator
    ELSE ParseConcat(s, nxt, a.ng, depth,
                     Append(acc, IF s[a.pos] = "*" THEN Star(a.node, ~lazy)
                                 ELSE Quest(a.node, ~lazy)))

IsLazy(s, i) == i + 1 <= Len(s) /\ s[i + 1] = "?"

\* after the atom a: its repetition operator, if any, and the rest
AfterAtom(s, depth, acc, a) ==
    IF ~a.ok THEN a
    ELSE IF a.pos <= Len(s) /\ s[a.pos] \in RepeatOps
    THEN Repeated(s, depth, acc, a, IsLazy(s, a.pos),
                  IF IsLazy(s, a.pos) THEN a.pos + 2 ELSE a.pos + 1)
    ELSE ParseConcat(s, a.pos, a.ng, depth, Append(acc, a.node))

\* concatenation of repeated atoms, up to "|", ")" or the end of the source
ParseConcat(s, i, ng, depth, acc) ==
    IF i > Len(s) \/ s[i] = "|" THEN ParseOk(Cat(acc), i, ng)
    ELSE IF s[i] = ")"
    THEN IF depth > 0 THEN ParseOk(Cat(acc), i, ng)
         ELSE ParseErr(i)                    \* unexpected )
    ELSE IF s[i] \in RepeatOps THEN ParseErr(i)   \* missing argument to repetition operator
    ELSE AfterAtom(s, depth, acc, ParseAtom(s, i, ng, depth))

\* the compiled regexp, or the error
Compiled(r) == [err |-> ~r.ok, cr |-> [node |-> r.node, ng |-> r.ng]]

\* regexp.Compile(s): (cr, err)
Compile(s) == Compiled(ParseAlt(s, 1, 0, 0))

(***************************************************************************)
(* The matcher: leftmost-first (Perl) semantics, as Compile's regexps have.*)
(* Match runs the nodes of todo in order from position pos, preferring the *)
(* first alternative and, for a greedy operator, one more repetition.      *)
(***************************************************************************)
Unset == << 0, 0 >>

Fail           == [ok |-> FALSE, pos |-> 0, caps |-> << >>]
Done(pos, caps) == [ok |-> TRUE, pos |-> pos, caps |-> caps]

RECURSIVE Match(_, _, _, _)

\* the result first if it is a match, else the match of todo
OrElse(first, todo, s, pos, caps) ==
    IF first.ok THEN first ELSE Match(todo, s, pos, caps)

\* the marker a repetition leaves behind: what follows needs pos > n
Progress(n) == Node("progress", "", TRUE, n, << >>)

\* the marker that closes capture group idx opened at position start
Close(idx, start) == Node("close", "", TRUE, idx, << start >>)

Match(todo, s, pos, caps) ==
    IF todo = << >> THEN Done(pos, caps)
    ELSE CASE Head(todo).op = "lit" ->
                IF pos <= Len(s) /\ s[pos] = Head(todo).ch
                THEN Match(Tail(todo), s, pos + 1, caps) ELSE Fail
           [] Head(todo).op = "any" ->
                IF pos <= Len(s) THEN Match(Tail(todo), s, pos + 1, caps) ELSE Fail
           [] Head(todo).op = "cat" -> Match(Head(todo).kids \o Tail(todo), s, pos, caps)
           [] Head(todo).op = "alt" ->
                OrElse(Match(<< Head(todo).kids[1] >> \o Tail(todo), s, pos, caps),
                       << Head(todo).kids[2] >> \o Tail(todo), s, pos, caps)
           [] Head(todo).op = "quest" ->
                IF Head(todo).greedy
                THEN OrElse(Match(Head(todo).kids \o Tail(todo), s, pos, caps),
                            Tail(todo), s, pos, caps)
                ELSE OrElse(Match(Tail(todo), s, pos, caps),
                            Head(todo).kids \o Tail(todo), s, pos, caps)
           [] Head(todo).op = "star" ->
                IF Head(todo).greedy
                THEN OrElse(Match(Head(todo).kids \o << Progress(pos) >> \o todo, s, pos, caps),
                            Tail(todo), s, pos, caps)
                ELSE OrElse(Match(Tail(todo), s, pos, caps),
                            Head(todo).kids \o << Progress(pos) >> \o todo, s, pos, caps)
           [] Head(todo).op = "progress" ->   \* a repetition that consumed nothing is not repeated
                IF pos > Head(todo).n THEN Match(Tail(todo), s, pos, caps) ELSE Fail
           [] Head(todo).op = "cap" ->
                Match(Head(todo).kids \o << Close(Head(todo).n, pos) >> \o Tail(todo), s, pos, caps)
           [] Head(todo).op = "close" ->
                Match(Tail(todo), s, pos,
                      [caps EXCEPT ![Head(todo).n] = << Head(todo).kids[1], pos >>])

NoCaps(cr) == [i \in 1..cr.ng |-> Unset]

\* the leftmost match of cr in s, trying start positions from..Len(s)+1 in order
RECURSIVE FindFrom(_, _, _)
Found(cr, s, from, r) ==
    IF r.ok THEN [ok |-> TRUE, start |-> from, pos |-> r.pos, caps |-> r.caps]
    ELSE FindFrom(cr, s, from + 1)

FindFrom(cr, s, from) ==
    IF from > Len(s) + 1 THEN [ok |-> FALSE, start |-> 0, pos |-> 0, caps |-> << >>]
    ELSE Found(cr, s, from, Match(<< cr.node >>, s, from, NoCaps(cr)))

\* (*Regexp).MatchString: cr matches somewhere in s
MatchString(cr, s) ==
    \E from \in 1..(Len(s) + 1) : Match(<< cr.node >>, s, from, NoCaps(cr)).ok

\* (*Regexp).FindStringSubmatch: << whole match, group 1, ..., group ng >>, a
\* group that took no part in the match being "", or the empty slice (nil),
\* r being the leftmost match
Submatches(cr, s, r) ==
    IF ~r.ok THEN << >>
    ELSE << SubSeq(s, r.start, r.pos - 1) >> \o
         [i \in 1..cr.ng |->
            IF r.caps[i] = Unset THEN EmptyStr
            ELSE SubSeq(s, r.caps[i][1], r.caps[i][2] - 1)]

FindStringSubmatch(cr, s) == Submatches(cr, s, FindFrom(cr, s, 1))

\* the length of the match FindStringSubmatch reports for cr in p, -1 if none
MatchSpan(cr, p) == IF MatchString(cr, p) THEN Len(FindStringSubmatch(cr, p)[1]) ELSE -1

\* the match of cr in p spans all of p
FullSpan(cr, p) == MatchSpan(cr, p) = Len(p)

(***************************************************************************)
(* The response writer (http.ResponseWriter) as route.go uses it           *)
(***************************************************************************)
NoHeader == [Server |-> "", Date |-> "", ContentType |-> "", ContentLength |-> EmptyStr]

\* a response nothing was written to: status 0 is "WriteHeader not called yet"
\* sets lists the header names set so far, in order, each with the number of
\* writes made before it
NewResponse ==
    [status |-> 0, header |-> NoHeader, body |-> EmptyStr, writes |-> 0, sets |-> << >>]

\* w.Header().Set(name, value)
HeaderSet(w, name, value) ==
    [w EXCEPT !.header[name] = value,
              !.sets = Append(@, [name |-> name, writes |-> w.writes])]

\* w.WriteHeader(code): the first status written is the response's status
WriteHeader(w, code) == IF w.status = 0 THEN [w EXCEPT !.status = code] ELSE w

\* w.Write(b): writes the status 200 if none was written, then hands b to the sink
Write(w, b) ==
    LET w1 == WriteHeader(w, 200) IN
    [w1 EXCEPT !.body = @ \o b, !.writes = @ + 1]

XrsfError   == << "x", "r", "s", "f", " ", "e", "r", "r", "o", "r", "." >>
ServerError == << "S", "e", "r", "v", "e", "r", " ", "E", "r", "r", "o", "r" >>

\* Action.Abort(status, body): write the status, then the body
Abort(w, status, body) == Write(WriteHeader(w, status), body)

(***************************************************************************)
(* Handlers.  A handler is a record [kind, methods, ctype, handler, cr]:   *)
(* kind "action" is an *actionHandler, kind "static" the *staticHandler.   *)
(***************************************************************************)
NilCr == [node |-> Node("nil", "", TRUE, 0, << >>), ng |-> 0]

\* &actionHandler{app, methods, ctype, handler: actionName}  (cr is nil)
NewActionHandler(methods, ctype, actionName) ==
    [kind |-> "action", methods |-> methods, ctype |-> ctype,
     handler |-> actionName, cr |-> NilCr]

\* &staticHandler{app}
StaticHandler ==
    [kind |-> "static", methods |-> {}, ctype |-> "", handler |-> "", cr |-> NilCr]

\* What reflection finds on an instance of each handler type: the fields
\* "Action" and "C" and the methods "Init", "Before", "After"
Ctypes == { "Plain", "Hooked", "InitOnly" }

Shape(ctype) ==
    CASE ctype = "Hooked"   -> [Action |-> TRUE,  C |-> TRUE,  Init |-> TRUE,  Before |-> TRUE,  After |-> TRUE]
      [] ctype = "InitOnly" -> [Action |-> TRUE,  C |-> FALSE, Init |-> TRUE,  Before |-> FALSE, After |-> FALSE]
      [] OTHER              -> [Action |-> FALSE, C |-> FALSE, Init |-> FALSE, Before |-> FALSE, After |-> FALSE]

(***************************************************************************)
(* State                                                                   *)
(***************************************************************************)
VARIABLES
    mapRoutes,      \* Routes.mapRoutes: exact path -> handler
    rgRoutes,       \* Routes.rgRoutes: the pattern handlers, in registration order
    defaultIndex,   \* Routes.defaultIndex
    app,            \* the App fields route.go reads and writes
    regErr,         \* what the last addAction / addStatic returned: "none", "nil" or "error"
    req,            \* the request handle was last called with
    obs,            \* what that call did: response, log, stages, calls, lookups
    inflight        \* the requests being handled at the same time, one per worker

vars == << mapRoutes, rgRoutes, defaultIndex, app, regErr, req, obs, inflight >>

(***************************************************************************)
(* actionHandler.DoCr                                                      *)
(*                                                                         *)
(* A request is [method, path, multipart, cookie, formVals, accept]:       *)
(* cookie is the XSRF_TAG cookie ([present, value]), formVals is           *)
(* req.Form[XSRF_TAG] after parsing.  What the instance's code does is     *)
(* beh = [fault, ret, writeFails, stat, zipErr, afterRet]: fault names the *)
(* step that panics ("none", "bind", "Init", "Before", "method", "After"), *)
(* ret is what the target method returns, a sequence of reflect values,    *)
(* afterRet is what the After hook returns.                                *)
(* The running observation st is [w, log, trace, calls, panicked,          *)
(* discarded]: discarded lists the values a hook returned, which DoCr      *)
(* drops.                                                                  *)
(***************************************************************************)
Start(w) ==
    [w |-> w, log |-> << >>, trace |-> << >>, calls |-> << >>, panicked |-> FALSE,
     discarded |-> << >>]

Stage(st, name) == [st EXCEPT !.trace = Append(@, name)]

Logged(st, entry) == [st EXCEPT !.log = Append(@, entry)]

\* mutant: HEAD is rewritten to GET in the request itself
Call_Normalized(h, r, fn, args, names, result, fault) ==
    [fn |-> fn, ctype |-> h.ctype, args |-> args, names |-> names, result |-> result,
     fault |-> fault, reqMethod |-> IF r.method = "HEAD" THEN "GET" ELSE r.method]

\* a call made on the instance (or by the static handler): the function, the
\* string captures or the hook's names passed, what it returned, whether it
\* panicked, and the method of the request the callee can see
Call(h, r, fn, args, names, result, fault) ==
    [fn |-> fn, ctype |-> h.ctype, args |-> args, names |-> names, result |-> result,
     fault |-> fault, reqMethod |-> r.method]

Called(st, c) == [st EXCEPT !.calls = Append(@, c)]

\* a panic that nothing recovers leaves DoCr at once
Panicked(st) == [st EXCEPT !.panicked = TRUE]

\* lines 79-85: req.ParseMultipartForm or req.ParseForm, errors ignored
ParseFormStage(st, r) ==
    Stage(st, IF r.multipart THEN "parse-multipart" ELSE "parse")

\* line 88
SetContentType(st) ==
    [st EXCEPT !.w = HeaderSet(@, "ContentType", "text/html; charset=utf-8")]

\* mutant: an empty cookie is not refused
XrsfFails_NoEmptyCheck(r) ==
    LET formVal == IF Len(r.formVals) > 0 THEN r.formVals[1] ELSE "" IN
    \/ ~r.cookie.present
    \/ r.cookie.value # formVal

\* line 103: the decision of the check, formVal being the first form value or ""
XrsfFails(r) ==
    LET formVal == IF Len(r.formVals) > 0 THEN r.formVals[1] ELSE "" IN
    \/ ~r.cookie.present
    \/ r.cookie.value = ""
    \/ r.cookie.value # formVal

\* line 96: whether the check applies
XrsfApplies(a, r) == a.CheckXrsf /\ r.method = "POST"

\* lines 104-106
XrsfAbort(st) ==
    [st EXCEPT !.w = Write(WriteHeader(@, 500), XrsfError)]

\* App.safelyCall(vc, h.handler, args): calls the method and turns a panic
\* of the call into an error
safelyCall(h, r, args, beh) ==
    IF beh.fault = "method"
    THEN [call |-> Call(h, r, h.handler, args, << >>, << >>, TRUE), err |-> TRUE, ret |-> << >>]
    ELSE [call |-> Call(h, r, h.handler, args, << >>, beh.ret, FALSE), err |-> FALSE,
          ret |-> beh.ret]

\* lines 166-177: the content of the first returned value, or the abort
IsString(v) == v.kind = "string"      \* sval.Kind() == reflect.String
IsBytes(v)  == v.kind = "bytes"       \* a slice whose elements are of kind Uint8

\* line 172: sval.Interface().([]byte) panics unless the type is []byte itself
BytesAssertPanics(v) == IsBytes(v) /\ ~IsString(v) /\ v.named

\* mutant: a returned error is not looked for
RenderAborts_Never(sval) == FALSE

\* mutant: every value that is neither a string nor a byte slice aborts
RenderAborts_AllOthers(sval) == ~IsString(sval) /\ ~IsBytes(sval)

RenderAborts(sval) == ~IsString(sval) /\ ~IsBytes(sval) /\ sval.isErr

\* mutant: only a string is rendered, a byte slice is not
Content_StringOnly(sval) == IF IsString(sval) THEN sval.data ELSE EmptyStr

Content(sval) == IF IsString(sval) \/ IsBytes(sval) THEN sval.data ELSE EmptyStr

\* Action.SetHeader("Content-Length", value)
SetContentLength(w, value) == HeaderSet(w, "ContentLength", value)

\* mutant: the body is written without its Content-Length
WriteStage_NoLength(st, content, beh) ==
    LET s1 == Stage(st, "write")
        s3 == [s1 EXCEPT !.w = Write(@, content)]
    IN  IF beh.writeFails THEN Logged(s3, "Error during write") ELSE s3

\* lines 179-183
WriteStage(st, content, beh) ==
    LET s1 == Stage(st, "write")
        s2 == [s1 EXCEPT !.w = SetContentLength(@, Itoa(Len(content)))]
        s3 == [s2 EXCEPT !.w = Write(@, content)]
    IN  IF beh.writeFails THEN Logged(s3, "Error during write") ELSE s3

\* lines 162-184
RenderStage(st, ret, beh) ==
    IF Len(ret) = 0 THEN st
    ELSE LET sval == ret[1]
             s1   == Stage(st, "render")
         IN  IF BytesAssertPanics(sval) THEN Panicked(s1)
             ELSE IF RenderAborts(sval)
             THEN [Logged(s1, "returned error") EXCEPT !.w = Abort(@, 500, ServerError)]
             ELSE WriteStage(s1, Content(sval), beh)

\* mutant: an error returned by the After hook aborts the request
AfterStage_UsesResult(h, r, st, ret, beh) ==
    IF ~Shape(h.ctype).After THEN st
    ELSE LET s1 == Called(Stage(st, "After"),
                          Call(h, r, "After", << >>, << h.ctype, h.handler >>, ret,
                               beh.fault = "After"))
         IN  IF beh.fault = "After" THEN Panicked(s1)
             ELSE IF Len(beh.afterRet) > 0 /\ beh.afterRet[1].isErr
             THEN [s1 EXCEPT !.w = Abort(@, 500, ServerError)]
             ELSE s1

\* lines 154-160
AfterStage(h, r, st, ret, beh) ==
    IF ~Shape(h.ctype).After THEN st
    ELSE LET s1 == Called(Stage(st, "After"),
                          Call(h, r, "After", << >>, << h.ctype, h.handler >>, ret,
                               beh.fault = "After"))
         IN  IF beh.fault = "After" THEN Panicked(s1)
             ELSE [s1 EXCEPT !.discarded = Append(@, beh.afterRet)]

\* mutant: the return after the abort is missing
InvokeStage_NoReturn(h, r, st, match, beh) ==
    LET res == safelyCall(h, r, match, beh)
        s1  == Called(Stage(st, "invoke"), res.call)
        s2  == IF res.err
               THEN [Logged(s1, "call error") EXCEPT !.w = Abort(@, 500, ServerError)]
               ELSE s1
        s3  == AfterStage(h, r, s2, res.ret, beh)
    IN  IF s3.panicked THEN s3 ELSE RenderStage(s3, res.ret, beh)

\* lines 146-184
InvokeStage(h, r, st, match, beh) ==
    LET res == safelyCall(h, r, match, beh)
        s1  == Called(Stage(st, "invoke"), res.call)
    IN  IF res.err
        THEN [Logged(s1, "call error") EXCEPT !.w = Abort(@, 500, ServerError)]
        ELSE LET s2 == AfterStage(h, r, s1, res.ret, beh) IN
             IF s2.panicked THEN s2 ELSE RenderStage(s2, res.ret, beh)

\* lines 137-144
BeforeStage(h, r, st, beh) ==
    IF ~Shape(h.ctype).Before THEN st
    ELSE LET s1 == Called(Stage(st, "Before"),
                          Call(h, r, "Before", << >>, << h.ctype, h.handler >>, << >>,
                               beh.fault = "Before"))
         IN  IF beh.fault = "Before" THEN Panicked(s1) ELSE s1

\* mutant: a panic of the Init hook is recovered and answered like one of the call
InitStage_Recovered(h, r, st, beh) ==
    IF ~Shape(h.ctype).Init THEN st
    ELSE LET s1 == Called(Stage(st, "Init"),
                          Call(h, r, "Init", << >>, << >>, << >>, beh.fault = "Init"))
         IN  IF beh.fault = "Init"
             THEN [Logged(s1, "call error") EXCEPT !.w = Abort(@, 500, ServerError)]
             ELSE s1

\* lines 131-135
InitStage(h, r, st, beh) ==
    IF ~Shape(h.ctype).Init THEN st
    ELSE LET s1 == Called(Stage(st, "Init"),
                          Call(h, r, "Init", << >>, << >>, << >>, beh.fault = "Init"))
         IN  IF beh.fault = "Init" THEN Panicked(s1) ELSE s1

\* lines 110-129: the new instance with its Action and C fields, then
\* StructMap, whose panic nothing recovers
ConstructStage(st, beh) ==
    LET s1 == Stage(Stage(st, "construct"), "bind") IN
    IF beh.fault = "bind" THEN Panicked(s1) ELSE s1

\* lines 96-108
XrsfStage(a, r, st) ==
    LET s1 == Stage(st, "csrf") IN
    IF XrsfApplies(a, r) /\ XrsfFails(r) THEN XrsfAbort(s1) ELSE s1

\* whether DoCr returned at line 106
XrsfReturned(a, r) == XrsfApplies(a, r) /\ XrsfFails(r)

\* mutant: the Before hook is called ahead of the Init hook
DoCr_BeforeFirst(h, a, st, r, match, beh) ==
    LET s1 == XrsfStage(a, r, SetContentType(ParseFormStage(st, r))) IN
    IF XrsfReturned(a, r) THEN s1
    ELSE LET s0 == ConstructStage(s1, beh) IN
         IF s0.panicked THEN s0
         ELSE LET s2 == BeforeStage(h, r, s0, beh) IN
              IF s2.panicked THEN s2
              ELSE LET s3 == InitStage(h, r, s2, beh) IN
                   IF s3.panicked THEN s3
                   ELSE InvokeStage(h, r, s3, match, beh)

\* actionHandler.DoCr(w, req, match)
DoCr(h, a, st, r, match, beh) ==
    LET s1 == XrsfStage(a, r, SetContentType(ParseFormStage(st, r))) IN
    IF XrsfReturned(a, r) THEN s1
    ELSE LET s0 == ConstructStage(s1, beh) IN
         IF s0.panicked THEN s0
         ELSE LET s2 == InitStage(h, r, s0, beh) IN
              IF s2.panicked THEN s2
              ELSE LET s3 == BeforeStage(h, r, s2, beh) IN
                   IF s3.panicked THEN s3
                   ELSE InvokeStage(h, r, s3, match, beh)

\* actionHandler.Do(w, req): DoCr with no captures
ActionDo(h, a, st, r, beh) == DoCr(h, a, st, r, << >>, beh)

(***************************************************************************)
(* staticHandler.Do                                                        *)
(***************************************************************************)
BasePath  == << "/" >>        \* App.BasePath
StaticDir == << "s" >>        \* AppConfig.StaticDir
StaticExtensionsToGzip == << << "b" >> >>   \* Server.Config.StaticExtensionsToGzip

\* strings.ToLower; the characters of this model have no upper case
ToLower(s) == s

FileBody == << "f" >>

\* http.ServeFile / http.ServeContent: the file, or 404 when it cannot be served
Serve(st, fn, r, beh) ==
    LET s1 == Called(st, Call(StaticHandler, r, fn, << >>, << >>, << >>, FALSE))
    IN  IF beh.stat = "file"
        THEN [s1 EXCEPT !.w = Write(@, FileBody)]
        ELSE [s1 EXCEPT !.w = Write(WriteHeader(@, 404), EmptyStr)]

\* lines 29-37
IsStaticFileToCompress(a, staticFile) ==
    /\ a.EnableGzip
    /\ Len(StaticExtensionsToGzip) > 0
    /\ \E i \in 1..Len(StaticExtensionsToGzip) :
           HasSuffix(ToLower(staticFile), ToLower(StaticExtensionsToGzip[i]))

\* lines 24-27
StaticFile(r) == PathJoin(StaticDir, SubSeq(r.path, Len(BasePath) + 1, Len(r.path)))

\* staticHandler.Do(w, req): the observation and a.ContentEncoding afterwards
StaticDo(a, st, r, beh) ==
    LET newPath    == SubSeq(r.path, Len(BasePath) + 1, Len(r.path))
        staticFile == PathJoin(StaticDir, newPath)
        s1         == Stage(st, "static")
    IN  IF IsStaticFileToCompress(a, staticFile)
        THEN IF beh.stat # "file"
             THEN [st |-> s1, enc |-> a.ContentEncoding]           \* lines 41-47
             ELSE IF beh.zipErr
             THEN [st |-> s1, enc |-> r.accept]                    \* lines 49-53
             ELSE [st |-> Serve(s1, "ServeContent", r, beh), enc |-> r.accept]
        ELSE [st |-> Serve(s1, "ServeFile", r, beh), enc |-> a.ContentEncoding]

\* handler.Do of either kind of handler
HandlerDo(h, a, st, r, beh) ==
    IF h.kind = "static" THEN StaticDo(a, st, r, beh)
    ELSE [st |-> ActionDo(h, a, st, r, beh), enc |-> a.ContentEncoding]

(***************************************************************************)
(* Routes.handle                                                           *)
(***************************************************************************)
Lookup(kind, key, idx, hit) == [kind |-> kind, key |-> key, idx |-> idx, hit |-> hit]

\* mutant: a pattern is accepted as soon as it matches somewhere in the path
RECURSIVE ScanPatterns_AnyMatch(_, _, _, _)
ScanPatterns_AnyMatch(rg, i, requestPath, tried) ==
    IF i > Len(rg) THEN [hit |-> FALSE, idx |-> 0, match |-> << >>, tried |-> tried]
    ELSE IF ~MatchString(rg[i].cr, requestPath)
    THEN ScanPatterns_AnyMatch(rg, i + 1, requestPath,
                               Append(tried, Lookup("pattern", requestPath, i, FALSE)))
    ELSE [hit |-> TRUE, idx |-> i, match |-> FindStringSubmatch(rg[i].cr, requestPath),
          tried |-> Append(tried, Lookup("pattern", requestPath, i, TRUE))]

\* mutant: the patterns are scanned from the last registered to the first
RECURSIVE ScanPatterns_Backwards(_, _, _, _)
ScanPatterns_Backwards(rg, i, requestPath, tried) ==
    IF i > Len(rg) THEN [hit |-> FALSE, idx |-> 0, match |-> << >>, tried |-> tried]
    ELSE LET j == Len(rg) + 1 - i IN
         IF ~FullSpan(rg[j].cr, requestPath)
         THEN ScanPatterns_Backwards(rg, i + 1, requestPath,
                                     Append(tried, Lookup("pattern", requestPath, j, FALSE)))
         ELSE [hit |-> TRUE, idx |-> j, match |-> FindStringSubmatch(rg[j].cr, requestPath),
               tried |-> Append(tried, Lookup("pattern", requestPath, j, TRUE))]

\* lines 254-266: the first handler of rg, from index i on, whose leftmost
\* match is as long as the path; tried lists the handlers looked at
RECURSIVE ScanPatterns(_, _, _, _)
ScanPatterns(rg, i, requestPath, tried) ==
    IF i > Len(rg) THEN [hit |-> FALSE, idx |-> 0, match |-> << >>, tried |-> tried]
    ELSE IF ~MatchString(rg[i].cr, requestPath)
    THEN ScanPatterns(rg, i + 1, requestPath,
                      Append(tried, Lookup("pattern", requestPath, i, FALSE)))
    ELSE LET match == FindStringSubmatch(rg[i].cr, requestPath) IN
         IF Len(match[1]) # Len(requestPath)
         THEN ScanPatterns(rg, i + 1, requestPath,
                           Append(tried, Lookup("pattern", requestPath, i, FALSE)))
         ELSE [hit |-> TRUE, idx |-> i, match |-> match,
               tried |-> Append(tried, Lookup("pattern", requestPath, i, TRUE))]

\* mutant: the default pages are tried from the last configured to the first
RECURSIVE ScanIndex_Backwards(_, _, _, _, _)
ScanIndex_Backwards(m, di, j, requestPath, tried) ==
    IF j > Len(di) THEN [hit |-> FALSE, key |-> EmptyStr, tried |-> tried]
    ELSE LET idxPath == PathJoin(requestPath, di[Len(di) + 1 - j]) IN
         IF idxPath \in DOMAIN m
         THEN [hit |-> TRUE, key |-> idxPath,
               tried |-> Append(tried, Lookup("index", idxPath, Len(di) + 1 - j, TRUE))]
         ELSE ScanIndex_Backwards(m, di, j + 1, requestPath,
                        Append(tried, Lookup("index", idxPath, Len(di) + 1 - j, FALSE)))

\* lines 269-275: the first default page with an exact entry
RECURSIVE ScanIndex(_, _, _, _, _)
ScanIndex(m, di, j, requestPath, tried) ==
    IF j > Len(di) THEN [hit |-> FALSE, key |-> EmptyStr, tried |-> tried]
    ELSE LET idxPath == PathJoin(requestPath, di[j]) IN
         IF idxPath \in DOMAIN m
         THEN [hit |-> TRUE, key |-> idxPath,
               tried |-> Append(tried, Lookup("index", idxPath, j, TRUE))]
         ELSE ScanIndex(m, di, j + 1, requestPath,
                        Append(tried, Lookup("index", idxPath, j, FALSE)))

\* lines 235-239: HEAD is GET in the local variable method
NormalMethod(method) == IF method = "HEAD" THEN "GET" ELSE method

\* webTime(time.Now().UTC()): the time of the request as an HTTP date
WebTimeNow == "webTime(now)"

\* lines 241-244
DefaultHeaders(w) ==
    HeaderSet(HeaderSet(w, "Server", "xweb"), "Date", WebTimeNow)

\* what handle leaves: the observation of the handler that ran, the lookups
\* made, the local variable method, a.ContentEncoding, and first, the
\* response as it was when the first lookup was made
Finish(res, lookups, method, first) ==
    [w |-> res.st.w, log |-> res.st.log, trace |-> res.st.trace, calls |-> res.st.calls,
     panicked |-> res.st.panicked, discarded |-> res.st.discarded, lookups |-> lookups,
     method |-> method, enc |-> res.enc, first |-> first]

\* mutant: the patterns are scanned before the exact-match map is looked at
handle_PatternsFirst(m, rg, di, a, r, beh) ==
    LET method == NormalMethod(r.method)
        st     == Start(DefaultHeaders(NewResponse))
        exact  == Lookup("exact", r.path, 0, r.path \in DOMAIN m)
        scan   == ScanPatterns(rg, 1, r.path, << >>)
    IN  IF scan.hit
        THEN Finish([st  |-> DoCr(rg[scan.idx], a, st, r, Tail(scan.match), beh),
                     enc |-> a.ContentEncoding], scan.tried, method, st.w)
        ELSE IF r.path \in DOMAIN m
        THEN Finish(HandlerDo(m[r.path], a, st, r, beh), Append(scan.tried, exact), method, st.w)
        ELSE LET idx == ScanIndex(m, di, 1, r.path, Append(scan.tried, exact)) IN
             IF idx.hit
             THEN Finish(HandlerDo(m[idx.key], a, st, r, beh), idx.tried, method, st.w)
             ELSE Finish([st |-> st, enc |-> a.ContentEncoding], idx.tried, method, st.w)

\* mutant: an exact entry of an action is passed over unless the action's
\* methods allow the method of the request
handle_ChecksMethods(m, rg, di, a, r, beh) ==
    LET method == NormalMethod(r.method)
        st     == Start(DefaultHeaders(NewResponse))
        found  == /\ r.path \in DOMAIN m
                  /\ m[r.path].kind = "action" => method \in m[r.path].methods
        exact  == Lookup("exact", r.path, 0, found)
    IN  IF found
        THEN Finish(HandlerDo(m[r.path], a, st, r, beh), << exact >>, method, st.w)
        ELSE LET scan == ScanPatterns(rg, 1, r.path, << exact >>) IN
             IF scan.hit
             THEN Finish([st  |-> DoCr(rg[scan.idx], a, st, r, Tail(scan.match), beh),
                          enc |-> a.ContentEncoding], scan.tried, method, st.w)
             ELSE LET idx == ScanIndex(m, di, 1, r.path, scan.tried) IN
                  IF idx.hit
                  THEN Finish(HandlerDo(m[idx.key], a, st, r, beh), idx.tried, method, st.w)
                  ELSE Finish([st |-> st, enc |-> a.ContentEncoding], idx.tried, method, st.w)

\* mutant: Server and Date are set once a route is found, ahead of its handler
handle_HeadersOnMatch(m, rg, di, a, r, beh) ==
    LET method == NormalMethod(r.method)
        st0    == Start(NewResponse)
        st     == Start(DefaultHeaders(NewResponse))
        exact  == Lookup("exact", r.path, 0, r.path \in DOMAIN m)
    IN  IF r.path \in DOMAIN m
        THEN Finish(HandlerDo(m[r.path], a, st, r, beh), << exact >>, method, st0.w)
        ELSE LET scan == ScanPatterns(rg, 1, r.path, << exact >>) IN
             IF scan.hit
             THEN Finish([st  |-> DoCr(rg[scan.idx], a, st, r, Tail(scan.match), beh),
                          enc |-> a.ContentEncoding], scan.tried, method, st0.w)
             ELSE LET idx == ScanIndex(m, di, 1, r.path, scan.tried) IN
                  IF idx.hit
                  THEN Finish(HandlerDo(m[idx.key], a, st, r, beh), idx.tried, method, st0.w)
                  ELSE Finish([st |-> st0, enc |-> a.ContentEncoding], idx.tried, method, st0.w)

\* Routes.handle(req, w) on the routes (m, rg, di): what it did
handle(m, rg, di, a, r, beh) ==
    LET method == NormalMethod(r.method)
        st     == Start(DefaultHeaders(NewResponse))
        exact  == Lookup("exact", r.path, 0, r.path \in DOMAIN m)
    IN  IF r.path \in DOMAIN m
        THEN Finish(HandlerDo(m[r.path], a, st, r, beh), << exact >>, method, st.w)
        ELSE LET scan == ScanPatterns(rg, 1, r.path, << exact >>) IN
             IF scan.hit
             THEN Finish([st  |-> DoCr(rg[scan.idx], a, st, r, Tail(scan.match), beh),
                          enc |-> a.ContentEncoding], scan.tried, method, st.w)
             ELSE LET idx == ScanIndex(m, di, 1, r.path, scan.tried) IN
                  IF idx.hit
                  THEN Finish(HandlerDo(m[idx.key], a, st, r, beh), idx.tried, method, st.w)
                  ELSE Finish([st |-> st, enc |-> a.ContentEncoding], idx.tried, method, st.w)

(***************************************************************************)
(* Registration                                                            *)
(***************************************************************************)
MapSet(m, s, h) == [k \in DOMAIN m \cup { s } |-> IF k = s THEN h ELSE m[k]]

\* Routes.addStatic(s, handler): the routes and the error returned
addStatic(m, rg, s, h) == [m |-> MapSet(m, s, h), rg |-> rg, err |-> FALSE]

\* mutant: every source is compiled, and one that does not compile is refused
addAction_CompileFirst(m, rg, s, methods, ctype, actionName) ==
    LET h == NewActionHandler(methods, ctype, actionName) IN
    IF Compile(s).err THEN [m |-> m, rg |-> rg, err |-> TRUE]
    ELSE IF ~ContainsAny(s, RepeatOps)
    THEN [m |-> MapSet(m, s, h), rg |-> rg, err |-> FALSE]
    ELSE [m |-> m, rg |-> Append(rg, [h EXCEPT !.cr = Compile(s).cr]), err |-> FALSE]

\* mutant: a source that does not compile is kept as an exact entry
addAction_LiteralFallback(m, rg, s, methods, ctype, actionName) ==
    LET h == NewActionHandler(methods, ctype, actionName) IN
    IF ~ContainsAny(s, RepeatOps)
    THEN [m |-> MapSet(m, s, h), rg |-> rg, err |-> FALSE]
    ELSE LET c == Compile(s) IN
         IF c.err THEN [m |-> MapSet(m, s, h), rg |-> rg, err |-> TRUE]
         ELSE [m |-> m, rg |-> Append(rg, [h EXCEPT !.cr = c.cr]), err |-> FALSE]

\* Routes.addAction(s, methods, ctype, actionName)
addAction(m, rg, s, methods, ctype, actionName) ==
    LET h == NewActionHandler(methods, ctype, actionName) IN
    IF ~ContainsAny(s, RepeatOps)
    THEN [m |-> MapSet(m, s, h), rg |-> rg, err |-> FALSE]
    ELSE LET c == Compile(s) IN
         IF c.err THEN [m |-> m, rg |-> rg, err |-> TRUE]
         ELSE [m |-> m, rg |-> Append(rg, [h EXCEPT !.cr = c.cr]), err |-> FALSE]

(***************************************************************************)
(* Inputs: route sources, request paths, handler types, requests           *)
(***************************************************************************)
MaxRoutes == 2      \* routes registered at most (exact entries plus patterns)

PathRoot == << "/" >>
PathA    == << "/", "a" >>
PathAB   == << "/", "a", "b" >>
PathA_   == << "/", "a", "/" >>
PathA_B  == << "/", "a", "/", "b" >>
PathA_A  == << "/", "a", "/", "a" >>

PatStarA   == << "/", "(", "a", "*", ")" >>                           \* /(a*)
PatTwo     == << "/", "(", "a", ")", "/", "?", "(", "b", "*", ")" >>  \* /(a)/?(b*)
PatInner   == << "a", "(", "b", "?", ")" >>                           \* a(b?)
PatInvalid == << "/", "(", "a", "*" >>                                \* /(a*

Paths == { PathRoot, PathA, PathAB, PathA_, PathA_B }

\* what addAction is called with besides the source: methods, ctype, actionName
Show   == [methods |-> { "GET" },         ctype |-> "Hooked",   handler |-> "Show"]
Save   == [methods |-> { "GET", "POST" }, ctype |-> "Plain",    handler |-> "Save"]
Setup  == [methods |-> { "POST" },        ctype |-> "InitOnly", handler |-> "Setup"]

\* reflect values a target method returns: the kind of the declared result
\* type, whether that type is a named one, whether the value is a non-nil
\* error, and its bytes
Value(kind, named, isErr, data) ==
    [kind |-> kind, named |-> named, isErr |-> isErr, data |-> data]

StrOk      == Value("string",    FALSE, FALSE, << "o", "k" >>)
StrEmpty   == Value("string",    FALSE, FALSE, EmptyStr)
BytesHi    == Value("bytes",     FALSE, FALSE, << "h", "i", "!" >>)
BytesNamed == Value("bytes",     TRUE,  FALSE, << "p" >>)     \* type Page []byte
ErrNew     == Value("interface", FALSE, TRUE,  EmptyStr)      \* errors.New(..), returned as error
ErrNil     == Value("interface", FALSE, FALSE, EmptyStr)      \* a nil error
ErrPtr     == Value("ptr",       TRUE,  TRUE,  EmptyStr)      \* *T with an Error method
ErrString  == Value("string",    TRUE,  TRUE,  << "n", "o" >>) \* type E string with an Error method
IntSeven   == Value("int",       FALSE, FALSE, EmptyStr)

Rets == { << >>, << StrOk >>, << StrEmpty >>, << BytesHi >>, << BytesNamed >>, << ErrNew >>,
          << ErrNil >>, << ErrPtr >>, << ErrString >>, << IntSeven >> }

Request(method, path, multipart, cookie, formVals, accept) ==
    [method |-> method, path |-> path, multipart |-> multipart, cookie |-> cookie,
     formVals |-> formVals, accept |-> accept]

Behaviour(fault, ret, writeFails, stat, zipErr) ==
    [fault |-> fault, ret |-> ret, writeFails |-> writeFails, stat |-> stat, zipErr |-> zipErr,
     afterRet |-> << >>]

\* the same behaviour with an After hook that returns v
AfterReturns(beh, v) == [beh EXCEPT !.afterRet = v]

NoCookie      == [present |-> FALSE, value |-> ""]
Cookie(value) == [present |-> TRUE, value |-> value]

Cookies  == { NoCookie, Cookie(""), Cookie("x") }
FormVals == { << >>, << "x" >>, << "y" >>, << "y", "x" >> }

\* a request that passes the xrsf check, and an instance that returns "ok"
PlainRequest(method, path) == Request(method, path, FALSE, Cookie("x"), << "x" >>, "")
Returns(ret) == Behaviour("none", ret, FALSE, "file", FALSE)

NoRequest == Request("", EmptyStr, FALSE, NoCookie, << >>, "")

NoObs == [w |-> NewResponse, log |-> << >>, trace |-> << >>, calls |-> << >>,
          panicked |-> FALSE, discarded |-> << >>, lookups |-> << >>, method |-> "",
          enc |-> "", first |-> NewResponse]

(***************************************************************************)
(* Requests in flight.  A worker's record is [pc, r, beh, opened, T,       *)
(* writes]: pc is where its request is ("idle", "line49", "line50",        *)
(* "done"), opened the encoding OpenMemZipFile was called with, T the      *)
(* context's variable mapping, writes the objects written for the request  *)
(* so far, each with whether it is shared by the whole process.            *)
(***************************************************************************)
Workers == { 1, 2 }

\* App.VarMaps as the configuration leaves it
VarMaps == << "site" >>

WriteTo(object, shared) == [object |-> object, shared |-> shared]

Idle == [pc |-> "idle", r |-> NoRequest, beh |-> Returns(<< >>), opened |-> "",
         T |-> << >>, writes |-> {}]

(***************************************************************************)
(* Init and the actions                                                    *)
(***************************************************************************)
\* NewRoutes(app, defaultHome), with the App's configuration
InitWith(homes, xrsf, gzip) ==
    /\ mapRoutes = << >>
    /\ rgRoutes = << >>
    /\ defaultIndex \in homes
    /\ app \in [CheckXrsf : xrsf, EnableGzip : gzip, ContentEncoding : { "" },
                VarMaps : { VarMaps }]
    /\ regErr = "none"
    /\ req = NoRequest
    /\ obs = NoObs
    /\ inflight = [k \in Workers |-> Idle]

RouteCount == Cardinality(DOMAIN mapRoutes) + Len(rgRoutes)

Registered(res) ==
    /\ mapRoutes' = res.m
    /\ rgRoutes' = res.rg
    /\ regErr' = IF res.err THEN "error" ELSE "nil"
    /\ UNCHANGED << defaultIndex, app, req, obs, inflight >>

AddStatic(s) ==
    /\ RouteCount < MaxRoutes \/ s \in DOMAIN mapRoutes
    /\ Registered(addStatic(mapRoutes, rgRoutes, s, StaticHandler))

AddAction(s, d) ==
    LET res == addAction(mapRoutes, rgRoutes, s, d.methods, d.ctype, d.handler) IN
    /\ RouteCount < MaxRoutes \/ s \in DOMAIN mapRoutes \/ res.err
    /\ Registered(res)

Handle(r, beh) ==
    LET o == handle(mapRoutes, rgRoutes, defaultIndex, app, r, beh) IN
    /\ req' = r
    /\ obs' = o
    /\ app' = [app EXCEPT !.ContentEncoding = o.enc]
    /\ UNCHANGED << mapRoutes, rgRoutes, defaultIndex, regErr, inflight >>

(***************************************************************************)
(* Spec: every registration order of the route sources, every path and     *)
(* method, for instances that return "ok" or nothing                       *)
(***************************************************************************)
Methods == { "GET", "HEAD", "POST" }

Reg(s, d) == [s |-> s, d |-> d]

\* the addAction calls of Spec; PathA is registered for two different actions
RouteRegs ==
    { Reg(PathA, Show), Reg(PathA, Save), Reg(PathA_B, Save), Reg(PathA_A, Setup),
      Reg(PatStarA, Show), Reg(PatTwo, Save), Reg(PatInner, Setup) }

RouteInputs ==
    { [r |-> PlainRequest(m, p), beh |-> Returns(<< StrOk >>)] : m \in Methods, p \in Paths }

DefaultHome == << << "b" >>, << "a" >> >>

Init == InitWith({ DefaultHome }, { TRUE }, { TRUE })

Next ==
    \/ \E s \in { PathA_B } : AddStatic(s)
    \/ \E g \in RouteRegs : AddAction(g.s, g.d)
    \/ \E i \in RouteInputs : Handle(i.r, i.beh)

Spec == Init /\ [][Next]_vars

(***************************************************************************)
(* SpecDo: few routes, and every request and instance behaviour the        *)
(* dispatcher distinguishes                                                *)
(***************************************************************************)
DoRegs == { Reg(PathA, Show), Reg(PathA, Save), Reg(PathA, Setup), Reg(PatStarA, Show) }

Faults == { "bind", "Init", "Before", "method", "After" }

DoInputs ==
    \* the xrsf check: every cookie and form field, GET and POST
    { [r |-> Request(m, PathA, FALSE, c, f, ""), beh |-> Returns(<< StrOk >>)] :
        m \in { "GET", "POST" }, c \in Cookies, f \in FormVals }
    \cup
    \* every return value, with and without a failing write
    { [r |-> PlainRequest("GET", PathA), beh |-> Behaviour("none", ret, wf, "file", FALSE)] :
        ret \in Rets, wf \in BOOLEAN }
    \cup
    \* an After hook that returns a value
    { [r |-> PlainRequest("GET", PathA), beh |-> AfterReturns(Returns(ret), v)] :
        ret \in { << >>, << StrOk >>, << ErrNew >> }, v \in { << StrOk >>, << ErrNew >> } }
    \cup
    \* a panic in each call
    { [r |-> PlainRequest("GET", PathA), beh |-> Behaviour(fault, ret, FALSE, "file", FALSE)] :
        fault \in Faults, ret \in { << StrOk >>, << ErrNew >> } }
    \cup
    \* a multipart form, a path that is never registered, and the static file
    \* in each state
    { [r |-> Request("POST", PathA, TRUE, Cookie("x"), << "x" >>, ""), beh |-> Returns(<< StrOk >>)],
      [r |-> PlainRequest("GET", PathAB), beh |-> Returns(<< StrOk >>)] }
    \cup
    { [r |-> Request("GET", PathA_B, FALSE, NoCookie, << >>, enc),
       beh |-> Behaviour("none", << >>, FALSE, f.stat, f.zipErr)] :
        enc \in { "", "gzip" },
        f \in { [stat |-> "file", zipErr |-> FALSE], [stat |-> "file", zipErr |-> TRUE],
                [stat |-> "dir", zipErr |-> FALSE], [stat |-> "err", zipErr |-> FALSE] } }

InitDo == InitWith({ DefaultHome }, BOOLEAN, { TRUE })

NextDo ==
    \/ \E s \in { PathA_B } : AddStatic(s)
    \/ \E g \in DoRegs : AddAction(g.s, g.d)
    \/ \E i \in DoInputs : Handle(i.r, i.beh)

SpecDo == InitDo /\ [][NextDo]_vars

(***************************************************************************)
(* SpecReg: registration.  Sources that are literal paths, sources with    *)
(* the characters of an expression but no '*' or '?', patterns, and        *)
(* sources with '*' or '?' that regexp.Compile rejects; the requests ask   *)
(* for the paths and for the sources themselves.                           *)
(***************************************************************************)
PathOpen   == << "/", "(", "a" >>       \* /(a  : no '*' or '?'; not an expression
PathDot    == << "/", "." >>            \* /.   : no '*' or '?'; as an expression, any character
PatBadStar == << "*", "a" >>            \* *a   : missing argument to '*'

\* the action the sources that do not compile are registered for
Broken == [methods |-> { "GET" }, ctype |-> "InitOnly", handler |-> "Broken"]

RegRegs ==
    { Reg(PathA, Show), Reg(PathA, Save), Reg(PathOpen, Setup), Reg(PathDot, Save),
      Reg(PatStarA, Show), Reg(PatInner, Setup),
      Reg(PatInvalid, Broken), Reg(PatBadStar, Broken) }

RegPaths == { PathRoot, PathA, PathAB, PathOpen, PathDot, PatInvalid, PatBadStar, PatStarA }

RegInputs ==
    { [r |-> PlainRequest(m, p), beh |-> Returns(<< StrOk >>)] :
        m \in { "GET", "POST" }, p \in RegPaths }

InitReg == InitWith({ DefaultHome }, { FALSE }, { TRUE })

NextReg ==
    \/ \E s \in { PathA } : AddStatic(s)
    \/ \E g \in RegRegs : AddAction(g.s, g.d)
    \/ \E i \in RegInputs : Handle(i.r, i.beh)

SpecReg == InitReg /\ [][NextReg]_vars

(***************************************************************************)
(* SpecCo: two workers handle requests at the same time on routes that     *)
(* were registered before.  A request's handling is cut where it touches   *)
(* memory that other requests can reach: staticHandler.Do assigns          *)
(* a.ContentEncoding at line 49 and reads it back at line 50.  Everything  *)
(* else a request does is one step.                                        *)
(***************************************************************************)
CoRoutes ==
    LET s1 == addStatic(<< >>, << >>, PathA_B, StaticHandler)
        s2 == addAction(s1.m, s1.rg, PathA, Show.methods, Show.ctype, Show.handler)
    IN  addAction(s2.m, s2.rg, PatStarA, Save.methods, Save.ctype, Save.handler)

CoInputs ==
    { [r |-> Request("GET", PathA_B, FALSE, NoCookie, << >>, enc),
       beh |-> Behaviour("none", << >>, FALSE, stat, FALSE)] :
        enc \in { "gzip", "deflate" }, stat \in { "file", "err" } }
    \cup
    { [r |-> PlainRequest("GET", p), beh |-> Returns(<< StrOk >>)] :
        p \in { PathA, PathRoot, PathAB } }

\* the objects DoCr writes up to the call of the target method (lines 79-129)
\* and the mapping the action's context was given, which the method adds to
ActionWrites ==
    { WriteTo("request.Form", FALSE), WriteTo("instance", FALSE),
      WriteTo("Action", FALSE), WriteTo("Action.T", FALSE) }

\* lines 115-118: a new mapping with the entries of a.VarMaps
CopyOf(varMaps) == [k \in 1..Len(varMaps) |-> varMaps[k]]

\* the request takes the branch of lines 40-55 as far as line 49
ReachesLine49(a, o, r, beh) ==
    /\ o.trace = << "static" >>
    /\ IsStaticFileToCompress(a, StaticFile(r))
    /\ beh.stat = "file"

\* handle up to the first access of memory that is shared and written
CoStart(k, r, beh) ==
    LET o == handle(mapRoutes, rgRoutes, defaultIndex, app, r, beh) IN
    /\ inflight[k].pc = "idle"
    /\ inflight' = [inflight EXCEPT ![k] =
          [pc     |-> IF ReachesLine49(app, o, r, beh) THEN "line49" ELSE "done",
           r      |-> r,
           beh    |-> beh,
           opened |-> "",
           T      |-> IF "construct" \in { o.trace[i] : i \in 1..Len(o.trace) }
                      THEN IF "invoke" \in { o.trace[i] : i \in 1..Len(o.trace) }
                           THEN Append(CopyOf(app.VarMaps), "page")
                           ELSE CopyOf(app.VarMaps)
                      ELSE << >>,
           writes |-> { WriteTo("response", FALSE) }
                        \cup (IF "construct" \in { o.trace[i] : i \in 1..Len(o.trace) }
                              THEN ActionWrites ELSE {})]]
    /\ UNCHANGED << mapRoutes, rgRoutes, defaultIndex, app, regErr, req, obs >>

\* line 49: a.ContentEncoding = GetAcceptEncodingZip(req)
CoSetEncoding(k) ==
    /\ inflight[k].pc = "line49"
    /\ app' = [app EXCEPT !.ContentEncoding = inflight[k].r.accept]
    /\ inflight' = [inflight EXCEPT ![k].pc = "line50",
                                    ![k].writes = @ \cup { WriteTo("App.ContentEncoding", TRUE) }]
    /\ UNCHANGED << mapRoutes, rgRoutes, defaultIndex, regErr, req, obs >>

\* what an unsynchronised read of a.ContentEncoding can give worker k: the
\* value stored, or, while another worker is assigning the field, that
\* worker's value or a mix of the two strings
RacyRead(k) ==
    { app.ContentEncoding }
      \cup UNION { { inflight[j].r.accept, "torn" } :
                     j \in { j \in Workers \ { k } : inflight[j].pc \in { "line49", "line50" } } }

\* lines 50-55: OpenMemZipFile(staticFile, a.ContentEncoding), then the file is served
CoOpenZip(k) ==
    /\ inflight[k].pc = "line50"
    /\ \E enc \in RacyRead(k) :
          inflight' = [inflight EXCEPT ![k].pc = "done", ![k].opened = enc]
    /\ UNCHANGED << mapRoutes, rgRoutes, defaultIndex, app, regErr, req, obs >>

\* the request is over; its objects are gone
CoEnd(k) ==
    /\ inflight[k].pc = "done"
    /\ inflight' = [inflight EXCEPT ![k] = Idle]
    /\ UNCHANGED << mapRoutes, rgRoutes, defaultIndex, app, regErr, req, obs >>

InitCo ==
    /\ mapRoutes = CoRoutes.m
    /\ rgRoutes = CoRoutes.rg
    /\ defaultIndex = DefaultHome
    /\ app = [CheckXrsf |-> TRUE, EnableGzip |-> TRUE, ContentEncoding |-> "",
              VarMaps |-> VarMaps]
    /\ regErr = "nil"
    /\ req = NoRequest
    /\ obs = NoObs
    /\ inflight = [k \in Workers |-> Idle]

NextCo ==
    \/ \E k \in Workers, i \in CoInputs : CoStart(k, i.r, i.beh)
    \/ \E k \in Workers : CoSetEncoding(k)
    \/ \E k \in Workers : CoOpenZip(k)
    \/ \E k \in Workers : CoEnd(k)

SpecCo == InitCo /\ [][NextCo]_vars

(***************************************************************************)
(* Vocabulary of the properties                                            *)
(***************************************************************************)
\* a step of handle: only handle assigns req and obs
HandleStep == << req, obs >>' # << req, obs >>

Last(q) == q[Len(q)]

HookNames == { "Init", "Before", "After" }

\* capture groups 1..ng of the match of cr in p, in order
Groups(cr, p) == [k \in 1..cr.ng |-> FindStringSubmatch(cr, p)[k + 1]]

\* the indices of the pattern routes whose match spans all of p
FullMatches(rg, p) == { i \in 1..Len(rg) : FullSpan(rg[i].cr, p) }

Least(S) == CHOOSE i \in S : \A j \in S : i <= j

\* the default-index candidates of p that have an exact entry
IndexHits(m, di, p) == { j \in 1..Len(di) : PathJoin(p, di[j]) \in DOMAIN m }

\* o is what running the action handler h with the captures caps leaves: DoCr
\* was entered, every call went to an instance of h's type, and the target
\* method, if it was reached, was called once, with caps
RanAction(o, h, caps) ==
    /\ Len(o.trace) > 0
    /\ o.trace[1] \in { "parse", "parse-multipart" }
    /\ \A k \in 1..Len(o.calls) :
          /\ o.calls[k].ctype = h.ctype
          /\ o.calls[k].fn \in HookNames \cup { h.handler }
          /\ o.calls[k].fn = h.handler => o.calls[k].args = caps
    /\ Cardinality({ k \in 1..Len(o.calls) : o.calls[k].fn = h.handler })
          = Cardinality({ k \in 1..Len(o.trace) : o.trace[k] = "invoke" })

\* o is what running the static handler leaves
RanStatic(o) == Len(o.trace) = 1 /\ o.trace[1] = "static"

Ran(o, h, caps) ==
    IF h.kind = "static" THEN RanStatic(o) /\ caps = << >> ELSE RanAction(o, h, caps)

\* the target method was called
Invoked(o) == \E k \in 1..Len(o.trace) : o.trace[k] = "invoke"

LookupKinds(o) == { o.lookups[k].kind : k \in 1..Len(o.lookups) }

(***************************************************************************)
(* C1: when the request path is a key of the exact-match map, handle       *)
(* dispatches to that entry's handler with zero captures: the exact lookup *)
(* is the only lookup made, no pattern is looked at and no pattern handler *)
(* runs, even if a registered pattern matches the whole path.              *)
(***************************************************************************)
C1_ExactFirst ==
    [][ (HandleStep /\ req'.path \in DOMAIN mapRoutes) =>
          /\ obs'.lookups = << Lookup("exact", req'.path, 0, TRUE) >>
          /\ Ran(obs', mapRoutes[req'.path], << >>) ]_vars

\* an exact entry was dispatched while a pattern route of another handler type
\* matches the whole path
C1_Witness ==
    /\ req.path \in DOMAIN mapRoutes
    /\ mapRoutes[req.path].kind = "action"
    /\ \E i \in FullMatches(rgRoutes, req.path) : rgRoutes[i].ctype # mapRoutes[req.path].ctype
    /\ obs.lookups = << Lookup("exact", req.path, 0, TRUE) >>
    /\ Invoked(obs)
    /\ Ran(obs, mapRoutes[req.path], << >>)

(***************************************************************************)
(* C2: a pattern route is selected only if its match spans the whole path. *)
(* The patterns are looked at in order from the first; one whose match is  *)
(* missing or shorter than the path is passed over and the next one is     *)
(* looked at; the scan ends at the first whose match spans the path, and   *)
(* that handler runs.                                                      *)
(***************************************************************************)
PatternLookups(o) == SelectSeq(o.lookups, LAMBDA l : l.kind = "pattern")

C2_FullSpanOnly ==
    [][ HandleStep =>
          LET pl == PatternLookups(obs') IN
          /\ \A k \in 1..Len(pl) :
                /\ pl[k].idx = k
                /\ k <= Len(rgRoutes)
                /\ pl[k].hit <=> FullSpan(rgRoutes[k].cr, req'.path)
                /\ pl[k].hit => k = Len(pl)
                /\ (~pl[k].hit /\ k < Len(rgRoutes)) => k < Len(pl)
          /\ (Len(obs'.lookups) > 0 /\ Last(obs'.lookups).kind = "pattern"
                /\ Last(obs'.lookups).hit) =>
                /\ FullSpan(rgRoutes[Last(obs'.lookups).idx].cr, req'.path)
                /\ Ran(obs', rgRoutes[Last(obs'.lookups).idx],
                       Groups(rgRoutes[Last(obs'.lookups).idx].cr, req'.path)) ]_vars

\* the first pattern matched only a proper prefix of the path and was passed
\* over, the second matched all of it and ran
C2_Witness ==
    /\ Len(rgRoutes) = 2
    /\ req.path \notin DOMAIN mapRoutes
    /\ MatchSpan(rgRoutes[1].cr, req.path) \in 1..(Len(req.path) - 1)
    /\ FullSpan(rgRoutes[2].cr, req.path)
    /\ rgRoutes[1].ctype # rgRoutes[2].ctype
    /\ Len(PatternLookups(obs)) = 2
    /\ ~PatternLookups(obs)[1].hit
    /\ PatternLookups(obs)[2].hit
    /\ Invoked(obs)
    /\ Ran(obs, rgRoutes[2], Groups(rgRoutes[2].cr, req.path))

(***************************************************************************)
(* C3: for a path with no exact entry, handle dispatches to the earliest   *)
(* registered pattern route whose match spans the path, with that          *)
(* pattern's capture groups in order (without the whole match); no later   *)
(* pattern is looked at and no default page is tried.                      *)
(***************************************************************************)
FirstPatternRan(o, rg, p, first) ==
    /\ Last(o.lookups) = Lookup("pattern", p, first, TRUE)
    /\ Len(PatternLookups(o)) = first
    /\ "index" \notin LookupKinds(o)
    /\ Ran(o, rg[first], Groups(rg[first].cr, p))

C3_FirstPatternWins ==
    [][ (HandleStep /\ req'.path \notin DOMAIN mapRoutes
           /\ FullMatches(rgRoutes, req'.path) # {}) =>
          FirstPatternRan(obs', rgRoutes, req'.path,
                          Least(FullMatches(rgRoutes, req'.path))) ]_vars

\* two patterns of different handler types match the whole path, with
\* different captures; the first registered ran, with captures
C3_Witness ==
    /\ req.path \notin DOMAIN mapRoutes
    /\ Cardinality(FullMatches(rgRoutes, req.path)) = 2
    /\ LET first == Least(FullMatches(rgRoutes, req.path))
           later == Least(FullMatches(rgRoutes, req.path) \ { first })
       IN  /\ rgRoutes[first].ctype # rgRoutes[later].ctype
           /\ Groups(rgRoutes[first].cr, req.path) # Groups(rgRoutes[later].cr, req.path)
           /\ Len(Groups(rgRoutes[first].cr, req.path)) = 2
           /\ Invoked(obs)
           /\ Ran(obs, rgRoutes[first], Groups(rgRoutes[first].cr, req.path))

(***************************************************************************)
(* C9: for a path with no exact entry and no pattern spanning it, the      *)
(* default pages are tried in the configured order with                    *)
(* path.Join(path, page) as the key; the handler of the first page that    *)
(* has an exact entry runs with zero captures and no later page is tried.  *)
(* No default page is tried when the path has an exact entry or a pattern  *)
(* spans it.                                                               *)
(***************************************************************************)
IndexLookups(o) == SelectSeq(o.lookups, LAMBDA l : l.kind = "index")

C9_DefaultIndexOrder ==
    [][ HandleStep =>
          LET il == IndexLookups(obs')
              direct == req'.path \in DOMAIN mapRoutes
                          \/ FullMatches(rgRoutes, req'.path) # {}
              hits == IndexHits(mapRoutes, defaultIndex, req'.path)
          IN  /\ direct => il = << >>
              /\ (~direct /\ hits # {}) =>
                    /\ Len(il) = Least(hits)
                    /\ \A j \in 1..Len(il) :
                          il[j] = Lookup("index", PathJoin(req'.path, defaultIndex[j]),
                                         j, j = Least(hits))
                    /\ Last(obs'.lookups) = Last(il)
                    /\ Ran(obs', mapRoutes[PathJoin(req'.path, defaultIndex[Least(hits)])],
                           << >>)
              /\ (~direct /\ hits = {}) =>
                    /\ Len(il) = Len(defaultIndex)
                    /\ obs'.calls = << >> ]_vars

\* both default pages have an exact entry, of different handler types, and the
\* first configured one ran
C9_Witness ==
    /\ req.path \notin DOMAIN mapRoutes
    /\ FullMatches(rgRoutes, req.path) = {}
    /\ IndexHits(mapRoutes, defaultIndex, req.path) = { 1, 2 }
    /\ mapRoutes[PathJoin(req.path, defaultIndex[1])].kind = "action"
    /\ mapRoutes[PathJoin(req.path, defaultIndex[1])].ctype
          # mapRoutes[PathJoin(req.path, defaultIndex[2])].ctype
    /\ Len(IndexLookups(obs)) = 1
    /\ Invoked(obs)
    /\ Ran(obs, mapRoutes[PathJoin(req.path, defaultIndex[1])], << >>)

(***************************************************************************)
(* C10: with any routes, a HEAD request makes the lookups a GET request    *)
(* for the same path makes and runs the same handler with the same         *)
(* captures (or none), and every call made for the HEAD request sees a     *)
(* request whose method is still HEAD.                                     *)
(***************************************************************************)
AsMethod(calls, method) == [k \in 1..Len(calls) |-> [calls[k] EXCEPT !.reqMethod = method]]

SameRoute(a, b) ==
    /\ a.lookups = b.lookups
    /\ a.trace = b.trace
    /\ AsMethod(a.calls, "") = AsMethod(b.calls, "")

C10_HeadAsGet ==
    \A i \in RouteInputs :
        i.r.method = "HEAD" =>
            LET head == handle(mapRoutes, rgRoutes, defaultIndex, app, i.r, i.beh)
                get  == handle(mapRoutes, rgRoutes, defaultIndex, app,
                               [i.r EXCEPT !.method = "GET"], i.beh)
            IN  /\ SameRoute(head, get)
                /\ head.method = "GET"
                /\ \A k \in 1..Len(head.calls) : head.calls[k].reqMethod = "HEAD"

\* a HEAD request was routed to a pattern route, whose calls saw the method HEAD
C10_Witness ==
    /\ req.method = "HEAD"
    /\ obs.method = "GET"
    /\ Len(obs.lookups) > 0
    /\ Last(obs.lookups).kind = "pattern"
    /\ Last(obs.lookups).hit
    /\ Invoked(obs)
    /\ \A k \in 1..Len(obs.calls) : obs.calls[k].reqMethod = "HEAD"
    /\ obs = handle(mapRoutes, rgRoutes, defaultIndex, app, req, Returns(<< StrOk >>))

(***************************************************************************)
(* Vocabulary of the dispatcher's properties                               *)
(***************************************************************************)
\* the dispatcher (DoCr) ran for the last request
Dispatched(o) == Len(o.trace) > 0 /\ o.trace[1] \in { "parse", "parse-multipart" }

StageSet(o) == { o.trace[k] : k \in 1..Len(o.trace) }

\* the place of a stage in parse, CSRF check, construct, bind, Init, Before,
\* invoke, After, render, write
StageRank(name) ==
    CASE name \in { "parse", "parse-multipart" } -> 1
      [] name = "csrf"      -> 2
      [] name = "construct" -> 3
      [] name = "bind"      -> 4
      [] name = "Init"      -> 5
      [] name = "Before"    -> 6
      [] name = "invoke"    -> 7
      [] name = "After"     -> 8
      [] name = "render"    -> 9
      [] name = "write"     -> 10
      [] OTHER              -> 0

\* the calls of the target method (not of a hook)
MethodCalls(o) == SelectSeq(o.calls, LAMBDA c : c.fn \notin HookNames)

\* the target method was called and returned ret
Returned(o, ret) ==
    /\ Dispatched(o)
    /\ Len(MethodCalls(o)) = 1
    /\ ~MethodCalls(o)[1].fault
    /\ MethodCalls(o)[1].result = ret

\* the stages a run up to the write of the body goes through, for an instance
\* of the type ctype
AllStages(ctype, first) ==
    << first, "csrf", "construct", "bind" >>
      \o (IF Shape(ctype).Init THEN << "Init" >> ELSE << >>)
      \o (IF Shape(ctype).Before THEN << "Before" >> ELSE << >>)
      \o << "invoke" >>
      \o (IF Shape(ctype).After THEN << "After" >> ELSE << >>)
      \o << "render", "write" >>

(***************************************************************************)
(* C4: whenever the dispatcher runs, its stages happen in the order parse  *)
(* form, CSRF check, construct, bind, Init, Before, invoke, After, render, *)
(* write: every stage that happens comes after all earlier ones and        *)
(* happens once; a run that reaches the write of the body went through all *)
(* of them (the hooks that the instance has).                              *)
(***************************************************************************)
C4_StageOrder ==
    Dispatched(obs) =>
        /\ \A i, j \in 1..Len(obs.trace) :
              i < j => 0 < StageRank(obs.trace[i]) /\ StageRank(obs.trace[i]) < StageRank(obs.trace[j])
        /\ Last(obs.trace) = "write" =>
              /\ Len(MethodCalls(obs)) = 1
              /\ obs.trace = AllStages(MethodCalls(obs)[1].ctype, obs.trace[1])
              /\ [k \in 1..Len(obs.calls) |-> obs.calls[k].fn]
                    = SelectSeq(<< "Init", "Before", MethodCalls(obs)[1].fn, "After" >>,
                                LAMBDA f : f \notin HookNames
                                             \/ Shape(MethodCalls(obs)[1].ctype)[f])

\* an instance with all three hooks went through all ten stages
C4_Witness ==
    /\ obs.trace = << "parse", "csrf", "construct", "bind", "Init", "Before", "invoke",
                      "After", "render", "write" >>
    /\ Len(obs.calls) = 4
    /\ obs.w.body = << "o", "k" >>

(***************************************************************************)
(* C5: when CheckXrsf is set and the method is POST, a request whose cookie*)
(* is missing, empty or different from the form field of the same name is  *)
(* answered 500 "xrsf error." and nothing after the check runs: no         *)
(* instance is constructed, no hook and no target method is called,        *)
(* nothing is rendered.  Every other request goes on to the construction   *)
(* of the instance.                                                        *)
(***************************************************************************)
FormField(r) == IF r.formVals = << >> THEN "" ELSE Head(r.formVals)

C5_XrsfRule ==
    Dispatched(obs) =>
        IF /\ app.CheckXrsf
           /\ req.method = "POST"
           /\ (~req.cookie.present \/ req.cookie.value = "" \/ req.cookie.value # FormField(req))
        THEN /\ obs.w.status = 500
             /\ obs.w.body = XrsfError
             /\ StageSet(obs) \subseteq { "parse", "parse-multipart", "csrf" }
             /\ obs.calls = << >>
             /\ obs.log = << >>
        ELSE /\ "construct" \in StageSet(obs)
             /\ obs.w.body # XrsfError

\* a POST whose cookie is set but differs from the form field was refused
C5_Witness ==
    /\ app.CheckXrsf
    /\ req.method = "POST"
    /\ req.cookie = Cookie("x")
    /\ req.formVals = << "y", "x" >>
    /\ obs.w.status = 500
    /\ obs.w.body = XrsfError
    /\ obs.trace = << "parse", "csrf" >>

(***************************************************************************)
(* C6: when the call of the target method panics, the request ends with    *)
(* one logged error, status 500 and the body "Server Error"; After is not  *)
(* called, nothing is rendered, no Content-Length is set, nothing else is  *)
(* written, and no panic leaves the dispatcher.                            *)
(***************************************************************************)
C6_PanicIs500 ==
    (Dispatched(obs) /\ \E k \in 1..Len(obs.calls) :
                           obs.calls[k].fn \notin HookNames /\ obs.calls[k].fault) =>
        /\ obs.log = << "call error" >>
        /\ obs.w.status = 500
        /\ obs.w.body = ServerError
        /\ obs.w.writes = 1
        /\ obs.w.header.ContentLength = EmptyStr
        /\ StageSet(obs) \cap { "After", "render", "write" } = {}
        /\ \A k \in 1..Len(obs.calls) : obs.calls[k].fn # "After"
        /\ Last(obs.trace) = "invoke"
        /\ ~obs.panicked

\* the target method of an instance that has an After hook panicked
C6_Witness ==
    /\ Len(obs.calls) = 3
    /\ obs.calls[3].fn = "Show"
    /\ obs.calls[3].fault
    /\ Shape(obs.calls[3].ctype).After
    /\ obs.w.status = 500
    /\ obs.w.body = ServerError
    /\ obs.log = << "call error" >>

(***************************************************************************)
(* C7: when the target method returns a non-nil error (a value that is not *)
(* of string or byte-slice kind), and no hook panics, the dispatcher logs  *)
(* it and answers as for a panic of the call: status 500, body             *)
(* "Server Error", no Content-Length and no other body.                    *)
(***************************************************************************)
IsErrorValue(v) == v.isErr /\ v.kind \notin { "string", "bytes" }

IsText(v) == v.kind = "string" \/ (v.kind = "bytes" /\ ~v.named)

Handlers == { mapRoutes[k] : k \in DOMAIN mapRoutes }
              \cup { rgRoutes[i] : i \in 1..Len(rgRoutes) }

NoBrokenRoute ==
    /\ \A h \in Handlers : h.handler # Broken.handler
    /\ \A k \in 1..Len(obs.calls) : obs.calls[k].fn # Broken.handler
    /\ { PatInvalid, PatBadStar } \cap DOMAIN mapRoutes = {}

Completed(o, ret) ==
    /\ Returned(o, ret)
    /\ ~o.panicked
    /\ Len(ret) > 0 => ~IsErrorValue(ret[1])

HeaderSets(o, name) == SelectSeq(o.w.sets, LAMBDA e : e.name = name)

(***************************************************************************)
(* C12 as stated: whenever the action completed, whatever it returned (no  *)
(* value included), the response carries a Content-Length equal to the     *)
(* length of its body.                                                     *)
(***************************************************************************)
C12_AlwaysContentLength ==
    \A ret \in Rets :
        Completed(obs, ret) => obs.w.header.ContentLength = Itoa(Len(obs.w.body))

(***************************************************************************)
(* C12 as amended: whenever the action completed and returned at least one *)
(* value, Content-Length is set once, before the body is written, to the   *)
(* length of the body handed to the response; when it returned no value,   *)
(* the dispatcher sets no Content-Length and writes nothing.               *)
(***************************************************************************)
C12_ContentLengthOfRendered ==
    \A ret \in Rets :
        Completed(obs, ret) =>
            IF Len(ret) = 0
            THEN /\ obs.w.header.ContentLength = EmptyStr
                 /\ HeaderSets(obs, "ContentLength") = << >>
                 /\ obs.w.writes = 0
                 /\ obs.w.status = 0
                 /\ StageSet(obs) \cap { "render", "write" } = {}
            ELSE /\ obs.w.header.ContentLength = Itoa(Len(obs.w.body))
                 /\ HeaderSets(obs, "ContentLength") = << [name |-> "ContentLength", writes |-> 0] >>
                 /\ obs.w.writes = 1

\* an action with an After hook returned no value: After was called, and the
\* response has no Content-Length and no body
C12_Witness ==
    /\ Returned(obs, << >>)
    /\ ~obs.panicked
    /\ Last(obs.calls).fn = "After"
    /\ Last(obs.trace) = "After"
    /\ obs.w.header.ContentLength = EmptyStr
    /\ obs.w.header.ContentType # ""
    /\ obs.w.writes = 0

(***************************************************************************)
(* C13.  handle has no result: what its caller is left with is the         *)
(* response, its status, headers and body.                                 *)
(***************************************************************************)
Handled == req # NoRequest

RouteFound(o) == \E k \in 1..Len(o.lookups) : o.lookups[k].hit

CallerSees(o) == [status |-> o.w.status, header |-> o.w.header, body |-> o.w.body]

(***************************************************************************)
(* C13 as stated: when the path has no exact entry, no pattern spanning it *)
(* and no default page, handle calls no handler and writes no status and   *)
(* no body, and what it gives back to its caller tells this outcome from   *)
(* that of every request that was dispatched.                              *)
(***************************************************************************)
C13_NotFoundSignal ==
    (Handled /\ ~RouteFound(obs)) =>
        /\ obs.calls = << >>
        /\ obs.trace = << >>
        /\ obs.w.status = 0
        /\ obs.w.writes = 0
        /\ \A i \in DoInputs :
              LET o == handle(mapRoutes, rgRoutes, defaultIndex, app, i.r, i.beh) IN
              RouteFound(o) => CallerSees(o) # CallerSees(obs)

(***************************************************************************)
(* C14 as stated: with requests handled at the same time, in every         *)
(* interleaving, every write made for a request goes to an object of that  *)
(* request; no step writes what the whole process shares (the App's        *)
(* fields, the shared variable mapping, the routes), and a request's own   *)
(* variable mapping is a copy: adding to it leaves the shared one as it    *)
(* was.                                                                    *)
(***************************************************************************)
C14_RequestLocalWrites ==
    (\A k \in Workers : inflight[k].pc # "idle") =>
        /\ \A k \in Workers : \A wr \in inflight[k].writes : ~wr.shared
        /\ app.VarMaps = VarMaps
        /\ mapRoutes = CoRoutes.m /\ rgRoutes = CoRoutes.rg

(***************************************************************************)
(* C15: for every request, whether a route is found or not, handle sets    *)
(* the headers Server ("xweb") and Date (the time of the request) once     *)
(* each; they are the first thing done to the response, they are set when  *)
(* the first route lookup is made, and every handler that runs is given a  *)
(* response that has them.                                                 *)
(***************************************************************************)
DefaultSets ==
    << [name |-> "Server", writes |-> 0], [name |-> "Date", writes |-> 0] >>

C15_ServerAndDate ==
    Handled =>
        /\ obs.w.header.Server = "xweb"
        /\ obs.w.header.Date = WebTimeNow
        /\ Len(HeaderSets(obs, "Server")) = 1
        /\ Len(HeaderSets(obs, "Date")) = 1
        /\ Len(obs.w.sets) >= 2
        /\ SubSeq(obs.w.sets, 1, 2) = DefaultSets
        /\ Len(obs.lookups) > 0
        /\ obs.first.sets = DefaultSets
        /\ obs.first.header.Server = "xweb" /\ obs.first.header.Date = WebTimeNow
        /\ obs.first.writes = 0

\* a request for which no route was found, with patterns and default pages
\* tried: its response has the two headers and nothing else
C15_Witness ==
    /\ Handled
    /\ ~RouteFound(obs)
    /\ Len(rgRoutes) > 0
    /\ Len(obs.lookups) = 1 + Len(rgRoutes) + Len(defaultIndex)
    /\ obs.w.sets = DefaultSets
    /\ obs.w.header.Server = "xweb"
    /\ obs.w.header.ContentType = ""
    /\ obs.w.status = 0

(***************************************************************************)
(* C16: whenever the call of the target method returns without a fault and *)
(* the instance has an After hook, After is called once, right after the   *)
(* call and before anything is rendered, with the type's name, the         *)
(* method's name and the returned values, also when the value returned is  *)
(* a non-nil error that is then answered 500 "Server Error".  What After   *)
(* itself returns is dropped: status and body are those the returned       *)
(* values alone give.                                                      *)
(***************************************************************************)
Positions(q, x) == { k \in 1..Len(q) : q[k] = x }

RenderedStatus(ret) ==
    IF Len(ret) = 0 THEN 0 ELSE IF IsErrorValue(ret[1]) THEN 500 ELSE 200

RenderedBody(ret) ==
    IF Len(ret) = 0 THEN EmptyStr
    ELSE IF IsErrorValue(ret[1]) THEN ServerError
    ELSE IF IsText(ret[1]) THEN ret[1].data
    ELSE EmptyStr

C16_AfterOnce ==
    \A ret \in Rets :
        (Returned(obs, ret) /\ Shape(MethodCalls(obs)[1].ctype).After) =>
            /\ Len(obs.calls) >= 2
            /\ Last(obs.calls).fn = "After"
            /\ Last(obs.calls).result = ret
            /\ Last(obs.calls).names
                  = << MethodCalls(obs)[1].ctype, MethodCalls(obs)[1].fn >>
            /\ obs.calls[Len(obs.calls) - 1] = MethodCalls(obs)[1]
            /\ Cardinality(Positions(obs.trace, "After")) = 1
            /\ \A k \in Positions(obs.trace, "After") :
                  /\ obs.trace[k - 1] = "invoke"
                  /\ \A j \in 1..k : obs.trace[j] \notin { "render", "write" }
            /\ ~obs.panicked =>
                  /\ Len(obs.discarded) = 1
                  /\ obs.w.status = RenderedStatus(ret)
                  /\ obs.w.body = RenderedBody(ret)

\* the method returned an error and After returned a string: After was
\* called with the error, then the request was answered 500
C16_Witness ==
    /\ Returned(obs, << ErrNew >>)
    /\ Last(obs.calls).fn = "After"
    /\ Last(obs.calls).result = << ErrNew >>
    /\ obs.discarded = << << StrOk >> >>
    /\ Last(obs.trace) = "render"
    /\ obs.w.status = 500
    /\ obs.w.body = ServerError

(***************************************************************************)
(* C17: when the target method returns one value that is not of string or  *)
(* byte-slice kind and is not a non-nil error (a number, a nil error), and *)
(* no hook panics, the dispatcher does not abort: it sets Content-Length   *)
(* to 0 and writes an empty body, so that the status is 200, not 500, and  *)
(* nothing is logged for the value.                                        *)
(***************************************************************************)
IsOtherValue(v) == v.kind \notin { "string", "bytes" } /\ ~v.isErr

C17_OtherValueEmptyBody ==
    \A ret \in Rets :
        (Len(ret) = 1 /\ IsOtherValue(ret[1]) /\ Returned(obs, ret) /\ ~obs.panicked) =>
            /\ Last(obs.trace) = "write"
            /\ obs.w.header.ContentLength = << "0" >>
            /\ obs.w.body = EmptyStr
            /\ obs.w.writes = 1
            /\ obs.w.status = 200
            /\ "returned error" \notin { obs.log[k] : k \in 1..Len(obs.log) }

\* a nil error was returned: the empty body was written with Content-Length 0
C17_Witness ==
    /\ Returned(obs, << ErrNil >>)
    /\ Last(obs.trace) = "write"
    /\ obs.w.header.ContentLength = << "0" >>
    /\ obs.w.writes = 1
    /\ obs.w.status = 200
    /\ obs.log = << >>

(***************************************************************************)
(* C18: only the call of the target method is guarded.  A panic of the     *)
(* Init, Before or After hook, or of the binding of the instance, is not   *)
(* answered 500 "Server Error": it leaves DoCr, nothing is logged and      *)
(* nothing more is done for the request.  After a panic of the binding, of *)
(* Init or of Before the target method is not called, and the dispatcher   *)
(* has written no status and no body.                                      *)
(***************************************************************************)
HookFaults(o) == { o.calls[k].fn : k \in { k \in 1..Len(o.calls) :
                                            o.calls[k].fn \in HookNames /\ o.calls[k].fault } }

BindFault(o) == o.panicked /\ Last(o.trace) = "bind"

C18_HookFaultsPropagate ==
    (Dispatched(obs) /\ (HookFaults(obs) # {} \/ BindFault(obs))) =>
        /\ obs.panicked
        /\ obs.log = << >>
        /\ obs.w.status # 500
        /\ obs.w.body # ServerError
        /\ HookFaults(obs) # {} =>
              /\ Last(obs.calls).fault
              /\ Last(obs.trace) = Last(obs.calls).fn
              /\ Cardinality(HookFaults(obs)) = 1
        /\ (HookFaults(obs) \cap { "Init", "Before" } # {} \/ BindFault(obs)) =>
              /\ MethodCalls(obs) = << >>
              /\ StageSet(obs) \cap { "invoke", "After", "render", "write" } = {}
              /\ obs.w.status = 0
              /\ obs.w.writes = 0
              /\ obs.w.body = EmptyStr
              /\ obs.w.header.ContentLength = EmptyStr

\* the Before hook panicked after Init had run: the method was not called,
\* nothing was written, the panic left the dispatcher
C18_Witness ==
    /\ Len(obs.calls) = 2
    /\ obs.calls[1].fn = "Init" /\ ~obs.calls[1].fault
    /\ obs.calls[2].fn = "Before" /\ obs.calls[2].fault
    /\ obs.panicked
    /\ obs.w.status = 0
    /\ obs.w.writes = 0
    /\ obs.log = << >>

(***************************************************************************)
(* C19: the route handle selects does not depend on the method of the      *)
(* request.  With any routes, two requests that differ only in the method  *)
(* make the same lookups with the same results and run the same handler    *)
(* with the same captures, or both find nothing; the methods recorded with *)
(* an action are not looked at, so an action registered for GET only, or   *)
(* for POST only, runs for GET, HEAD and POST alike.                       *)
(***************************************************************************)
C19_MethodBlind ==
    \A i \in RouteInputs :
        LET one == handle(mapRoutes, rgRoutes, defaultIndex, app, i.r, i.beh) IN
        /\ \A m \in Methods :
              SameRoute(one, handle(mapRoutes, rgRoutes, defaultIndex, app,
                                    [i.r EXCEPT !.method = m], i.beh))
        /\ RouteFound(one) => (Invoked(one) \/ RanStatic(one))
        /\ \A k \in 1..Len(one.calls) : one.calls[k].reqMethod = i.r.method

\* a POST request ran an action that a pattern route registered for GET only
C19_Witness ==
    /\ req.method = "POST"
    /\ Len(obs.lookups) > 1
    /\ Last(obs.lookups).kind = "pattern"
    /\ Last(obs.lookups).hit
    /\ Last(obs.lookups).idx <= Len(rgRoutes)
    /\ rgRoutes[Last(obs.lookups).idx].methods = { "GET" }
    /\ Invoked(obs)
    /\ Ran(obs, rgRoutes[Last(obs.lookups).idx],
           Groups(rgRoutes[Last(obs.lookups).idx].cr, req.path))
    /\ \A k \in 1..Len(obs.calls) : obs.calls[k].reqMethod = "POST"

(***************************************************************************)
(* C20.  What a call addAction(g.s, ...) must leave, by the characters of  *)
(* the source.  Without '*' and '?': the exact-match map has the new       *)
(* handler, not compiled, under the source itself, in place of any entry   *)
(* that was there; the other entries and the pattern list are as before;   *)
(* no error.  With '*' or '?': the map is as before; on an error the       *)
(* pattern list is as before, otherwise it is the list before with the     *)
(* compiled handler added at the end.                                      *)
(***************************************************************************)
HasRepeatChar(s) == \E k \in 1..Len(s) : s[k] \in { "*", "?" }

Classified(g) ==
    IF ~HasRepeatChar(g.s)
    THEN /\ DOMAIN mapRoutes' = DOMAIN mapRoutes \cup { g.s }
         /\ mapRoutes'[g.s] = [kind |-> "action", methods |-> g.d.methods,
                               ctype |-> g.d.ctype, handler |-> g.d.handler, cr |-> NilCr]
         /\ \A k \in DOMAIN mapRoutes \ { g.s } : mapRoutes'[k] = mapRoutes[k]
         /\ rgRoutes' = rgRoutes
         /\ regErr' = "nil"
    ELSE /\ mapRoutes' = mapRoutes
         /\ regErr' \in { "nil", "error" }
         /\ g.d # Broken => regErr' = "nil"
         /\ regErr' = "error" => rgRoutes' = rgRoutes
         /\ regErr' = "nil" =>
               /\ Len(rgRoutes') = Len(rgRoutes) + 1
               /\ SubSeq(rgRoutes', 1, Len(rgRoutes)) = rgRoutes
               /\ Last(rgRoutes').handler = g.d.handler
               /\ Last(rgRoutes').ctype = g.d.ctype
               /\ Last(rgRoutes').cr # NilCr
               /\ Last(rgRoutes').cr = Compile(g.s).cr

\* an entry that addAction put in the exact-match map runs only for one of
\* the keys: the key looked up is a key of the map, letter for letter, its
\* handler runs with no captures, and the key is among keys
ExactEntryRuns(o, p, keys) ==
    /\ (Last(o.lookups).kind # "pattern" /\ Last(o.lookups).hit) =>
          /\ Last(o.lookups).key \in DOMAIN mapRoutes
          /\ Ran(o, mapRoutes[Last(o.lookups).key], << >>)
          /\ mapRoutes[Last(o.lookups).key].kind = "action" =>
                Last(o.lookups).key \in keys
    /\ \A k \in 1..Len(o.lookups) :
          o.lookups[k].kind # "pattern" =>
              (o.lookups[k].hit <=> o.lookups[k].key \in DOMAIN mapRoutes)
    /\ Last(o.lookups).kind = "pattern" /\ Last(o.lookups).hit =>
          p \notin DOMAIN mapRoutes

IndexPaths(p) == { PathJoin(p, defaultIndex[j]) : j \in 1..Len(defaultIndex) }

(***************************************************************************)
(* C20 as stated: addAction classifies the source by its characters, as    *)
(* above, and an entry of the exact-match map is matched only by a request *)
(* whose path is identical to the source.                                  *)
(***************************************************************************)
C20_OnlyOwnPath ==
    [][ /\ \A g \in RegRegs : AddAction(g.s, g.d) => Classified(g)
        /\ HandleStep => ExactEntryRuns(obs', req'.path, { req'.path }) ]_vars

(***************************************************************************)
(* C20 as amended: addAction classifies the source by its characters, as   *)
(* above, and an entry of the exact-match map is matched only by a lookup  *)
(* whose key is identical to the source: the path of the request or, when  *)
(* the path has no route of its own, the path joined with a default page.  *)
(***************************************************************************)
C20_ClassifiedByCharacters ==
    [][ /\ \A g \in RegRegs : AddAction(g.s, g.d) => Classified(g)
        /\ HandleStep =>
              ExactEntryRuns(obs', req'.path, { req'.path } \cup IndexPaths(req'.path)) ]_vars

\* "/(a", which is no expression, is an exact entry that was registered
\* without an error and ran for the path "/(a"; "/." is an exact entry too
C20_Witness ==
    /\ regErr = "nil"
    /\ DOMAIN mapRoutes = { PathOpen, PathDot }
    /\ mapRoutes[PathOpen].cr = NilCr
    /\ req.path = PathOpen
    /\ obs.lookups = << Lookup("exact", PathOpen, 0, TRUE) >>
    /\ Invoked(obs)
    /\ Ran(obs, mapRoutes[PathOpen], << >>)

====
